---- MODULE Spec2Model ----
(***************************************************************************)
(* The API-key store, hourly rate limiter and usage ledger of              *)
(* services/db_service.py (class DBService), as a state machine.           *)
(*                                                                         *)
(* Every DBService method opens its own sqlite3 connection.  Python's      *)
(* sqlite3 module runs a SELECT in autocommit mode and opens a deferred    *)
(* transaction before the first INSERT/UPDATE, which takes the database's  *)
(* single write lock and keeps it until commit (or until the connection    *)
(* is closed, which rolls back).  A caller is therefore modelled as a      *)
(* worker that executes the method's SQL statements one step at a time:    *)
(* a SELECT reads the committed tables, a write statement waits for the    *)
(* write lock and stages its change, and commit publishes it.  A writer    *)
(* that finds the lock taken waits for it (sqlite3's busy handler); the    *)
(* "database is locked" error of a wait that outlasts the timeout is left  *)
(* to the second specification.  The workers stand for callers on          *)
(* different threads or processes (several server processes, the           *)
(* command-line tools): inside one asyncio event loop the synchronous      *)
(* methods run one after another.                                          *)
(*                                                                         *)
(* SpecGateway follows one HTTP request at a time through the middlewares  *)
(* and routes of app.py, with the methods as single steps.                 *)
(* SpecBootstrap runs init_db.py on a value of VALID_API_KEYS spelled in   *)
(* characters, SpecLedger records requests over several days and reads    *)
(* the statistics with get_usage_stats, and SpecRoutes is SpecGateway      *)
(* with the route / added and the set of keys fixed.                       *)
(***************************************************************************)
EXTENDS Integers, Sequences, FiniteSets, Bags, TLC

\* ---------------------------------------------------------------- bounds
MaxCalls == 3            \* method invocations in one behaviour
MaxTime == 2             \* last clock tick
TicksPerHour == 2        \* clock ticks in one wall-clock hour
MaxRequestsPerHour == 2  \* the ceiling passed as max_requests_per_hour
MaxRequests == 3         \* HTTP requests the server receives in one behaviour
MaxEnvLen == 3           \* characters in the value of VALID_API_KEYS (bootstrap)
MaxRecords == 3          \* calls of log_request (ledger)
MaxDays == 2             \* calendar dates after the first (ledger)

\* the concurrent callers, each call on a connection of its own
Workers == {"w1", "w2"}
Secrets == {"abc123", "zzz999"}
Names == {"cli"}
Endpoints == {"/api/fact-check"}
StatusCodes == {200}
ResponseTimes == {7}

\* the request task of the server that is followed, and what a request carries
Requests == {"r1"}
Paths == {"/health", "/api/fact-check"}
\* request.headers.get("X-API-Key") without the header (`not api_key` holds)
NoHeader == ""
\* the value of VALID_API_KEYS, as its comma-separated fields (unset: none)
Environments == {<<>>, <<"abc123">>}
\* the secrets generate_api_key.py issues while the server runs
Generated == {"zzz999"}
\* a connection of another process holding the write lock past the timeout
External == "external"

\* Python's None for an id (ids start at 1, and `not api_key_id` holds of it)
NoId == 0
\* SQL NULL in a timestamp column, and fetchone() returning None
NULL == -1
\* nobody holds the write lock
NoWorker == "none"

VARIABLES
    api_keys,     \* table api_keys: sequence of rows, in insertion order
    rate_limits,  \* table rate_limits
    usage_stats,  \* table usage_stats
    lock,         \* the worker holding SQLite's write lock, or NoWorker
    now,          \* the wall clock, in ticks
    pc,           \* pc[w]: the statement worker w executes next
    loc,          \* loc[w]: the local variables of w's running method
    hist,         \* the completed calls with what they returned: a bag
    API_KEYS,     \* app.py's module-level list API_KEYS
    req,          \* req[r]: the HTTP request task r of the server is handling
    served,       \* the number of finished HTTP requests, and the last of them
    rate_limiter  \* app.py's module-level RateLimiter instance

\* the server's part of the state, and the direct callers' part
gateway == <<API_KEYS, req, served, rate_limiter>>
callers == <<pc, loc, hist>>

vars == <<api_keys, rate_limits, usage_stats, lock, now, pc, loc, hist,
          API_KEYS, req, served, rate_limiter>>

\* ------------------------------------------- the in-memory rate limiter
\* RateLimiter.__init__: no client has a list of calls yet
RateLimiter(max_calls, time_period) ==
    [max_calls |-> max_calls, time_period |-> time_period, calls |-> <<>>]

RECURSIVE Recent(_, _, _)
\* the timestamps of calls at most time_period old at current_time
Recent(calls, current_time, time_period) ==
    IF calls = <<>> THEN <<>>
    ELSE LET rest == Recent(Tail(calls), current_time, time_period)
         IN  IF current_time - Head(calls) <= time_period
             THEN <<Head(calls)>> \o rest ELSE rest

\* RateLimiter.check: the client gets a list, the list loses its old
\* timestamps, and the call is refused when max_calls of them are left;
\* otherwise current_time joins the list
check(self, client_id, current_time) ==
    LET old == IF client_id \in DOMAIN self.calls THEN self.calls[client_id] ELSE <<>>
        kept == Recent(old, current_time, self.time_period)
        Put(list) == [c \in DOMAIN self.calls \cup {client_id} |->
                         IF c = client_id THEN list ELSE self.calls[c]]
    IN  IF Len(kept) >= self.max_calls
        THEN [ret |-> FALSE, self |-> [self EXCEPT !.calls = Put(kept)]]
        ELSE [ret |-> TRUE, self |-> [self EXCEPT !.calls = Put(Append(kept, current_time))]]

\* mutant: the middleware asks the in-memory limiter as well
Consulted_inMemory(self, client_id, current_time) ==
    check(self, client_id, current_time).self

\* the limiter after the middleware's rate-limit step for client_id: the
\* step calls db_service.check_rate_limit and nothing of rate_limiter
Consulted(self, client_id, current_time) == self

\* ------------------------------------------------------------- the tables
\* datetime.now().strftime("%Y-%m-%d-%H"): the clock truncated to the hour
HourOf(t) == t \div TicksPerHour

\* cursor.fetchone(): the first of the rows S the WHERE clause selects (by
\* index), 0 when there is none
FirstOf(S) == IF S = {} THEN 0 ELSE CHOOSE i \in S : \A j \in S : i <= j

\* id INTEGER PRIMARY KEY AUTOINCREMENT: one more than the largest id used
NextId(t) == Len(t) + 1

\* mutant: the SELECT without "AND is_active = 1"
SelectActiveId_anyRow(keys, api_key) ==
    LET i == FirstOf({j \in 1..Len(keys) : keys[j].key = api_key})
    IN  IF i = 0 THEN NoId ELSE keys[i].id

\* SELECT id FROM api_keys WHERE key = ? AND is_active = 1
SelectActiveId(keys, api_key) ==
    LET i == FirstOf({j \in 1..Len(keys) : keys[j].key = api_key /\ keys[j].is_active = 1})
    IN  IF i = 0 THEN NoId ELSE keys[i].id

\* mutant: a secret without a row gets the id of the first row
get_api_key_id_fallback(keys, api_key) ==
    IF \E i \in 1..Len(keys) : keys[i].key = api_key
    THEN keys[CHOOSE i \in 1..Len(keys) : keys[i].key = api_key].id
    ELSE IF keys = <<>> THEN NoId ELSE keys[1].id

\* SELECT id FROM api_keys WHERE key = ?   (get_api_key_id)
get_api_key_id(keys, api_key) ==
    LET i == FirstOf({j \in 1..Len(keys) : keys[j].key = api_key})
    IN  IF i = 0 THEN NoId ELSE keys[i].id

\* mutant: the secret is unique among the active rows only
KeyUniqueViolated_activeOnly(keys, api_key) ==
    \E i \in 1..Len(keys) : keys[i].key = api_key /\ keys[i].is_active = 1

\* mutant: the key column without its UNIQUE constraint
KeyUniqueViolated_never(keys, api_key) == FALSE

\* key TEXT UNIQUE NOT NULL: the INSERT raises IntegrityError on a duplicate
KeyUniqueViolated(keys, api_key) == \E i \in 1..Len(keys) : keys[i].key = api_key

\* INSERT INTO api_keys (key, name) VALUES (?, ?), with the column defaults
InsertApiKey(keys, api_key, name, t) ==
    Append(keys, [id |-> NextId(keys), key |-> api_key, name |-> name,
                  created_at |-> t, last_used |-> NULL, is_active |-> 1])

\* mutant: the UPDATE without its WHERE clause
UpdateLastUsed_all(keys, id, t) ==
    [i \in 1..Len(keys) |-> [keys[i] EXCEPT !.last_used = t]]

\* UPDATE api_keys SET last_used = CURRENT_TIMESTAMP WHERE id = ?
UpdateLastUsed(keys, id, t) ==
    [i \in 1..Len(keys) |->
        IF keys[i].id = id THEN [keys[i] EXCEPT !.last_used = t] ELSE keys[i]]

\* mutant: the SELECT without "api_key_id = ?"
SelectRequestCount_anyKey(limits, id, hour) ==
    LET i == FirstOf({j \in 1..Len(limits) : limits[j].hour_timestamp = hour})
    IN  IF i = 0 THEN NULL ELSE limits[i].request_count

\* mutant: the SELECT without "AND hour_timestamp = ?"
SelectRequestCount_anyHour(limits, id, hour) ==
    LET i == FirstOf({j \in 1..Len(limits) : limits[j].api_key_id = id})
    IN  IF i = 0 THEN NULL ELSE limits[i].request_count

\* SELECT request_count FROM rate_limits WHERE api_key_id = ? AND hour_timestamp = ?
\* followed by fetchone(): the count of the first such row, NULL for no row
SelectRequestCount(limits, id, hour) ==
    LET i == FirstOf({j \in 1..Len(limits) :
                         limits[j].api_key_id = id /\ limits[j].hour_timestamp = hour})
    IN  IF i = 0 THEN NULL ELSE limits[i].request_count

\* mutant: the table without UNIQUE(api_key_id, hour_timestamp)
RateUniqueViolated_never(limits, id, hour) == FALSE

\* UNIQUE(api_key_id, hour_timestamp): the INSERT raises IntegrityError on a duplicate
RateUniqueViolated(limits, id, hour) ==
    \E i \in 1..Len(limits) : limits[i].api_key_id = id /\ limits[i].hour_timestamp = hour

\* mutant: the first request of the hour is stored as 0
InsertRateLimit_zero(limits, id, hour) ==
    Append(limits, [id |-> NextId(limits), api_key_id |-> id,
                    hour_timestamp |-> hour, request_count |-> 0])

\* INSERT INTO rate_limits (api_key_id, hour_timestamp, request_count) VALUES (?, ?, 1)
InsertRateLimit(limits, id, hour) ==
    Append(limits, [id |-> NextId(limits), api_key_id |-> id,
                    hour_timestamp |-> hour, request_count |-> 1])

\* mutant: the UPDATE writes the count read by the SELECT, plus one
IncrementRateLimit_stale(limits, id, hour, read) ==
    [i \in 1..Len(limits) |->
        IF limits[i].api_key_id = id /\ limits[i].hour_timestamp = hour
        THEN [limits[i] EXCEPT !.request_count = read + 1] ELSE limits[i]]

\* UPDATE rate_limits SET request_count = request_count + 1
\*   WHERE api_key_id = ? AND hour_timestamp = ?
\* (read is the count the caller's SELECT returned; the statement does not use it)
IncrementRateLimit(limits, id, hour, read) ==
    [i \in 1..Len(limits) |->
        IF limits[i].api_key_id = id /\ limits[i].hour_timestamp = hour
        THEN [limits[i] EXCEPT !.request_count = @ + 1] ELSE limits[i]]

\* mutant: the counter is incremented whatever it has reached
UnderLimit_always(current_count, max_requests_per_hour) == TRUE

\* mutant: the comparison lets a bucket at the ceiling through
UnderLimit_le(current_count, max_requests_per_hour) == current_count <= max_requests_per_hour

\* if current_count < max_requests_per_hour
UnderLimit(current_count, max_requests_per_hour) == current_count < max_requests_per_hour

\* mutant: INSERT OR REPLACE on the id of the newest row
InsertUsage_replace(usage, id, endpoint, response_time_ms, status_code, t) ==
    LET row == [id |-> IF usage = <<>> THEN 1 ELSE Len(usage), api_key_id |-> id,
                endpoint |-> endpoint, timestamp |-> t,
                response_time_ms |-> response_time_ms, status_code |-> status_code]
    IN  IF usage = <<>> THEN <<row>> ELSE [usage EXCEPT ![Len(usage)] = row]

\* INSERT INTO usage_stats (api_key_id, endpoint, response_time_ms, status_code)
InsertUsage(usage, id, endpoint, response_time_ms, status_code, t) ==
    Append(usage, [id |-> NextId(usage), api_key_id |-> id, endpoint |-> endpoint,
                   timestamp |-> t, response_time_ms |-> response_time_ms,
                   status_code |-> status_code])

\* ------------------------------------------------------------ bookkeeping
Idle == [op |-> "none", api_key |-> "", name |-> "", api_key_id |-> NoId, current_hour |-> 0,
         result |-> NULL, txn |-> <<>>, solo |-> TRUE, pre |-> NULL]

\* invocations so far: the completed calls and the running ones
Calls == BagCardinality(hist) + Cardinality({w \in Workers : pc[w] # "idle"})

\* the stored count of the bucket (secret, hour), NULL without a row
StoredCount(keys, limits, api_key, hour) ==
    IF \E i \in 1..Len(keys) : keys[i].key = api_key
    THEN LET k == CHOOSE i \in 1..Len(keys) : keys[i].key = api_key
             S == {j \in 1..Len(limits) : /\ limits[j].api_key_id = keys[k].id
                                          /\ limits[j].hour_timestamp = hour}
         IN  IF S = {} THEN NULL ELSE limits[CHOOSE j \in S : TRUE].request_count
    ELSE NULL

\* is_active of the row of a secret, NULL without a row
StoredActive(keys, api_key) ==
    IF \E i \in 1..Len(keys) : keys[i].key = api_key
    THEN keys[CHOOSE i \in 1..Len(keys) : keys[i].key = api_key].is_active
    ELSE NULL

\* the record of a call of l.op that returns ret (and count), or raises
Returned(l, ret, count, outcome, post) ==
    [op |-> l.op, api_key |-> l.api_key, api_key_id |-> l.api_key_id,
     hour |-> l.current_hour, ret |-> ret, count |-> count, outcome |-> outcome,
     solo |-> l.solo, pre |-> l.pre, post |-> post]

Record(e) == hist (+) SetToBag({e})

\* a commit to rate_limits by w interferes with every other running call
Interfere(w, l) ==
    [v \in Workers |-> IF v = w THEN Idle
                       ELSE IF pc[v] = "idle" THEN l[v] ELSE [l[v] EXCEPT !.solo = FALSE]]

\* the key store after `python init_db.py` with VALID_API_KEYS=abc123
Seeded == InsertApiKey(<<>>, "abc123", "Key 1 from environment", 0)

\* os.getenv("VALID_API_KEYS", "").split(","): "".split(",") is [""]
Split(fields) == IF fields = <<>> THEN <<"">> ELSE fields

\* a request task before a request arrives; the fields are the request
\* (path, api_key), the response being built (status, detail, the two
\* rate-limit headers) and what happened to it on the way
Waiting == [stage |-> "idle", path |-> "", api_key |-> NoHeader,
            status |-> 0, detail |-> "", limit |-> NULL, remaining |-> NULL,
            current_count |-> 0, pre |-> NULL, limited |-> FALSE,
            dispatched |-> FALSE, failed |-> "none", inner |-> 0,
            revoked |-> FALSE]

Init ==
    /\ \E env \in Environments :
          /\ API_KEYS = Split(env)
          /\ api_keys = IF env = <<>> THEN <<>> ELSE Seeded
    /\ req = [r \in Requests |-> Waiting]
    /\ served = [n |-> 0, last |-> Waiting]
    /\ rate_limiter = RateLimiter(MaxRequestsPerHour, TicksPerHour)
    /\ rate_limits = <<>>
    /\ usage_stats = <<>>
    /\ lock = NoWorker
    /\ now = 0
    /\ pc = [w \in Workers |-> "idle"]
    /\ loc = [w \in Workers |-> Idle]
    /\ hist = EmptyBag

\* ------------------------------------------------------------ add_api_key
\* add_api_key is called: self._get_connection()
AddCall(w, api_key, name) ==
    /\ pc[w] = "idle"
    /\ Calls < MaxCalls
    /\ loc' = [loc EXCEPT ![w] = [Idle EXCEPT !.op = "add_api_key", !.api_key = api_key,
                                              !.name = name,
                                              !.pre = StoredActive(api_keys, api_key)]]
    /\ pc' = [pc EXCEPT ![w] = "add_insert"]
    /\ UNCHANGED <<api_keys, rate_limits, usage_stats, lock, now, hist, gateway>>

\* add_api_key, the INSERT: on a duplicate the IntegrityError is caught, the
\* connection is closed without a commit and the method returns False
AddInsert(w) ==
    /\ pc[w] = "add_insert"
    /\ lock = NoWorker
    /\ IF KeyUniqueViolated(api_keys, loc[w].api_key)
       THEN /\ hist' = Record(Returned(loc[w], FALSE, 0, "ok",
                                       StoredActive(api_keys, loc[w].api_key)))
            /\ pc' = [pc EXCEPT ![w] = "idle"]
            /\ loc' = [loc EXCEPT ![w] = Idle]
            /\ UNCHANGED lock
       ELSE /\ loc' = [loc EXCEPT ![w].txn =
                          InsertApiKey(api_keys, loc[w].api_key, loc[w].name, now)]
            /\ pc' = [pc EXCEPT ![w] = "add_commit"]
            /\ lock' = w
            /\ UNCHANGED hist
    /\ UNCHANGED <<api_keys, rate_limits, usage_stats, now, gateway>>

\* add_api_key, conn.commit() and return True
AddCommit(w) ==
    /\ pc[w] = "add_commit"
    /\ api_keys' = loc[w].txn
    /\ lock' = NoWorker
    /\ hist' = Record(Returned(loc[w], TRUE, 0, "ok", StoredActive(loc[w].txn, loc[w].api_key)))
    /\ pc' = [pc EXCEPT ![w] = "idle"]
    /\ loc' = [loc EXCEPT ![w] = Idle]
    /\ UNCHANGED <<rate_limits, usage_stats, now, gateway>>

\* ------------------------------------------------------- validate_api_key
\* validate_api_key, the SELECT: without a row it closes and returns False
ValidateSelect(w, api_key) ==
    /\ pc[w] = "idle"
    /\ Calls < MaxCalls
    /\ LET id == SelectActiveId(api_keys, api_key)
           l == [Idle EXCEPT !.op = "validate_api_key", !.api_key = api_key,
                             !.result = id, !.pre = StoredActive(api_keys, api_key)]
       IN  IF id = NoId
           THEN /\ hist' = Record(Returned(l, FALSE, 0, "ok", StoredActive(api_keys, api_key)))
                /\ UNCHANGED <<pc, loc>>
           ELSE /\ loc' = [loc EXCEPT ![w] = l]
                /\ pc' = [pc EXCEPT ![w] = "validate_update"]
                /\ UNCHANGED hist
    /\ UNCHANGED <<api_keys, rate_limits, usage_stats, lock, now, gateway>>

\* validate_api_key, the UPDATE of last_used
ValidateUpdate(w) ==
    /\ pc[w] = "validate_update"
    /\ lock = NoWorker
    /\ lock' = w
    /\ loc' = [loc EXCEPT ![w].txn = UpdateLastUsed(api_keys, loc[w].result, now)]
    /\ pc' = [pc EXCEPT ![w] = "validate_commit"]
    /\ UNCHANGED <<api_keys, rate_limits, usage_stats, now, hist, gateway>>

\* validate_api_key, conn.commit() and return True
ValidateCommit(w) ==
    /\ pc[w] = "validate_commit"
    /\ api_keys' = loc[w].txn
    /\ lock' = NoWorker
    /\ hist' = Record(Returned(loc[w], TRUE, 0, "ok", StoredActive(loc[w].txn, loc[w].api_key)))
    /\ pc' = [pc EXCEPT ![w] = "idle"]
    /\ loc' = [loc EXCEPT ![w] = Idle]
    /\ UNCHANGED <<rate_limits, usage_stats, now, gateway>>

\* ------------------------------------------------------- check_rate_limit
\* check_rate_limit, get_api_key_id and datetime.now(): an unknown key
\* returns (False, 0)
RateGetId(w, api_key) ==
    /\ pc[w] = "idle"
    /\ Calls < MaxCalls
    /\ LET id == get_api_key_id(api_keys, api_key)
           l == [Idle EXCEPT !.op = "check_rate_limit", !.api_key = api_key,
                             !.api_key_id = id, !.current_hour = HourOf(now),
                             !.pre = StoredCount(api_keys, rate_limits, api_key, HourOf(now))]
       IN  IF id = NoId
           THEN /\ hist' = Record(Returned(l, FALSE, 0, "ok", l.pre))
                /\ UNCHANGED <<pc, loc>>
           ELSE /\ loc' = [loc EXCEPT ![w] = l]
                /\ pc' = [pc EXCEPT ![w] = "rate_select"]
                /\ UNCHANGED hist
    /\ UNCHANGED <<api_keys, rate_limits, usage_stats, lock, now, gateway>>

\* check_rate_limit, the SELECT of the bucket's count
RateSelect(w) ==
    /\ pc[w] = "rate_select"
    /\ loc' = [loc EXCEPT ![w].result =
                  SelectRequestCount(rate_limits, loc[w].api_key_id, loc[w].current_hour)]
    /\ pc' = [pc EXCEPT ![w] = "rate_write"]
    /\ UNCHANGED <<api_keys, rate_limits, usage_stats, lock, now, hist, gateway>>

\* check_rate_limit, a row was read and is under the limit: the UPDATE
RateUpdate(w) ==
    /\ pc[w] = "rate_write"
    /\ loc[w].result # NULL
    /\ UnderLimit(loc[w].result, MaxRequestsPerHour)
    /\ lock = NoWorker
    /\ lock' = w
    /\ loc' = [loc EXCEPT ![w].txn = IncrementRateLimit(rate_limits, loc[w].api_key_id,
                                                         loc[w].current_hour, loc[w].result),
                          ![w].result = loc[w].result + 1]
    /\ pc' = [pc EXCEPT ![w] = "rate_commit"]
    /\ UNCHANGED <<api_keys, rate_limits, usage_stats, now, hist, gateway>>

\* check_rate_limit, a row was read and is at the limit: commit nothing, and
\* return (False, current_count)
RateReject(w) ==
    /\ pc[w] = "rate_write"
    /\ loc[w].result # NULL
    /\ ~UnderLimit(loc[w].result, MaxRequestsPerHour)
    /\ hist' = Record(Returned(loc[w], FALSE, loc[w].result, "ok",
                  StoredCount(api_keys, rate_limits, loc[w].api_key, loc[w].current_hour)))
    /\ pc' = [pc EXCEPT ![w] = "idle"]
    /\ loc' = [loc EXCEPT ![w] = Idle]
    /\ UNCHANGED <<api_keys, rate_limits, usage_stats, lock, now, gateway>>

\* check_rate_limit, no row was read: the INSERT, which raises IntegrityError
\* out of the method when another caller has inserted the row meanwhile
RateInsert(w) ==
    /\ pc[w] = "rate_write"
    /\ loc[w].result = NULL
    /\ lock = NoWorker
    /\ IF RateUniqueViolated(rate_limits, loc[w].api_key_id, loc[w].current_hour)
       THEN /\ hist' = Record(Returned(loc[w], FALSE, 0, "IntegrityError",
                  StoredCount(api_keys, rate_limits, loc[w].api_key, loc[w].current_hour)))
            /\ pc' = [pc EXCEPT ![w] = "idle"]
            /\ loc' = [loc EXCEPT ![w] = Idle]
            /\ UNCHANGED lock
       ELSE /\ lock' = w
            /\ loc' = [loc EXCEPT ![w].txn = InsertRateLimit(rate_limits, loc[w].api_key_id,
                                                              loc[w].current_hour),
                                  ![w].result = 1]
            /\ pc' = [pc EXCEPT ![w] = "rate_commit"]
            /\ UNCHANGED hist
    /\ UNCHANGED <<api_keys, rate_limits, usage_stats, now, gateway>>

\* check_rate_limit, conn.commit() and return (True, current_count)
RateCommit(w) ==
    /\ pc[w] = "rate_commit"
    /\ rate_limits' = loc[w].txn
    /\ lock' = NoWorker
    /\ hist' = Record(Returned(loc[w], TRUE, loc[w].result, "ok",
                  StoredCount(api_keys, loc[w].txn, loc[w].api_key, loc[w].current_hour)))
    /\ pc' = [pc EXCEPT ![w] = "idle"]
    /\ loc' = Interfere(w, loc)
    /\ UNCHANGED <<api_keys, usage_stats, now, gateway>>

\* ------------------------------------------------------------ log_request
\* log_request, get_api_key_id: an unknown key is logged as a warning only
LogGetId(w, api_key) ==
    /\ pc[w] = "idle"
    /\ Calls < MaxCalls
    /\ LET id == get_api_key_id(api_keys, api_key)
           l == [Idle EXCEPT !.op = "log_request", !.api_key = api_key,
                             !.api_key_id = id, !.pre = Len(usage_stats)]
       IN  IF id = NoId
           THEN /\ hist' = Record(Returned(l, FALSE, 0, "ok", Len(usage_stats)))
                /\ UNCHANGED <<pc, loc>>
           ELSE /\ loc' = [loc EXCEPT ![w] = l]
                /\ pc' = [pc EXCEPT ![w] = "log_insert"]
                /\ UNCHANGED hist
    /\ UNCHANGED <<api_keys, rate_limits, usage_stats, lock, now, gateway>>

\* log_request, the INSERT into usage_stats
LogInsert(w, endpoint, response_time_ms, status_code) ==
    /\ pc[w] = "log_insert"
    /\ lock = NoWorker
    /\ lock' = w
    /\ loc' = [loc EXCEPT ![w].txn = InsertUsage(usage_stats, loc[w].api_key_id, endpoint,
                                                  response_time_ms, status_code, now)]
    /\ pc' = [pc EXCEPT ![w] = "log_commit"]
    /\ UNCHANGED <<api_keys, rate_limits, usage_stats, now, hist, gateway>>

\* log_request, conn.commit()
LogCommit(w) ==
    /\ pc[w] = "log_commit"
    /\ usage_stats' = loc[w].txn
    /\ lock' = NoWorker
    /\ hist' = Record(Returned(loc[w], TRUE, 0, "ok", Len(loc[w].txn)))
    /\ pc' = [pc EXCEPT ![w] = "idle"]
    /\ loc' = [loc EXCEPT ![w] = Idle]
    /\ UNCHANGED <<api_keys, rate_limits, now, gateway>>

\* ------------------------------------------------------------ environment
\* an administrator deactivates a key: is_active set to 0 for that secret
Deactivate(api_key) ==
    /\ lock = NoWorker
    /\ \E i \in 1..Len(api_keys) : api_keys[i].key = api_key /\ api_keys[i].is_active = 1
    /\ api_keys' = [i \in 1..Len(api_keys) |->
                       IF api_keys[i].key = api_key
                       THEN [api_keys[i] EXCEPT !.is_active = 0] ELSE api_keys[i]]
    /\ UNCHANGED <<rate_limits, usage_stats, lock, now, pc, loc, hist, gateway>>

\* the wall clock advances
Tick ==
    /\ now < MaxTime
    /\ now' = now + 1
    /\ UNCHANGED <<api_keys, rate_limits, usage_stats, lock, pc, loc, hist, gateway>>

Next ==
    \/ \E w \in Workers, k \in Secrets, n \in Names : AddCall(w, k, n)
    \/ \E w \in Workers : AddInsert(w)
    \/ \E w \in Workers : AddCommit(w)
    \/ \E w \in Workers, k \in Secrets : ValidateSelect(w, k)
    \/ \E w \in Workers : ValidateUpdate(w)
    \/ \E w \in Workers : ValidateCommit(w)
    \/ \E w \in Workers, k \in Secrets : RateGetId(w, k)
    \/ \E w \in Workers : RateSelect(w)
    \/ \E w \in Workers : RateUpdate(w)
    \/ \E w \in Workers : RateReject(w)
    \/ \E w \in Workers : RateInsert(w)
    \/ \E w \in Workers : RateCommit(w)
    \/ \E w \in Workers, k \in Secrets : LogGetId(w, k)
    \/ \E w \in Workers, e \in Endpoints, t \in ResponseTimes, s \in StatusCodes :
          LogInsert(w, e, t, s)
    \/ \E w \in Workers : LogCommit(w)
    \/ \E k \in Secrets : Deactivate(k)
    \/ Tick

Spec == Init /\ [][Next]_vars

\* ---------------------------------------------------------- the HTTP server
(***************************************************************************)
(* app.py: every HTTP request passes log_requests (the outermost           *)
(* middleware, added last), then validate_api_key, then the router.  The   *)
(* server calls the DBService methods from its event loop, each on a       *)
(* connection of its own and to completion, so here a method is one step:  *)
(* the operators below give what it returns and the tables it commits.     *)
(* Other processes use the same database file (the command-line tools,     *)
(* an administrator): a write statement that finds the write lock held by  *)
(* one of them past sqlite3's timeout raises OperationalError ("database   *)
(* is locked"), and the method's uncommitted change is rolled back.  A     *)
(* SELECT needs no write lock.                                             *)
(***************************************************************************)

\* mutant: a secret the table does not hold is registered on first use
validate_api_key_autoRegister(keys, api_key, t, locked) ==
    LET id == SelectActiveId(keys, api_key)
    IN  IF id = NoId
        THEN IF locked \/ KeyUniqueViolated(keys, api_key)
             THEN [raised |-> FALSE, ret |-> FALSE, keys |-> keys]
             ELSE [raised |-> FALSE, ret |-> TRUE,
                   keys |-> InsertApiKey(keys, api_key, "auto", t)]
        ELSE IF locked THEN [raised |-> TRUE, ret |-> FALSE, keys |-> keys]
        ELSE [raised |-> FALSE, ret |-> TRUE, keys |-> UpdateLastUsed(keys, id, t)]

\* DBService.validate_api_key(api_key) while the write lock is free or not
validate_api_key(keys, api_key, t, locked) ==
    LET id == SelectActiveId(keys, api_key)
    IN  IF id = NoId THEN [raised |-> FALSE, ret |-> FALSE, keys |-> keys]
        ELSE IF locked THEN [raised |-> TRUE, ret |-> FALSE, keys |-> keys]
        ELSE [raised |-> FALSE, ret |-> TRUE, keys |-> UpdateLastUsed(keys, id, t)]

\* DBService.check_rate_limit(api_key, max_requests_per_hour)
check_rate_limit(keys, limits, api_key, max_requests_per_hour, t, locked) ==
    LET id == get_api_key_id(keys, api_key)
        current_hour == HourOf(t)
        result == SelectRequestCount(limits, id, current_hour)
    IN  IF id = NoId
        THEN [raised |-> FALSE, is_allowed |-> FALSE, current_count |-> 0, limits |-> limits]
        ELSE IF result # NULL /\ ~UnderLimit(result, max_requests_per_hour)
        THEN [raised |-> FALSE, is_allowed |-> FALSE, current_count |-> result,
              limits |-> limits]
        ELSE IF locked
        THEN [raised |-> TRUE, is_allowed |-> FALSE, current_count |-> 0, limits |-> limits]
        ELSE IF result = NULL
        THEN [raised |-> FALSE, is_allowed |-> TRUE, current_count |-> 1,
              limits |-> InsertRateLimit(limits, id, current_hour)]
        ELSE [raised |-> FALSE, is_allowed |-> TRUE, current_count |-> result + 1,
              limits |-> IncrementRateLimit(limits, id, current_hour, result)]

\* DBService.log_request(api_key, endpoint, response_time_ms, status_code)
log_request(keys, usage, api_key, endpoint, response_time_ms, status_code, t, locked) ==
    LET api_key_id == get_api_key_id(keys, api_key)
    IN  IF api_key_id = NoId THEN [raised |-> FALSE, usage |-> usage]
        ELSE IF locked THEN [raised |-> TRUE, usage |-> usage]
        ELSE [raised |-> FALSE,
              usage |-> InsertUsage(usage, api_key_id, endpoint, response_time_ms,
                                    status_code, t)]

\* get_api_key, the dependency of the two /api routes: the key is accepted
get_api_key(keys_allowed, api_key) ==
    \/ keys_allowed = <<>>
    \/ \E i \in 1..Len(keys_allowed) : keys_allowed[i] = api_key

\* JSONResponse(status_code, {"detail": detail}) for the request q
Respond(q, status_code, detail) ==
    [q EXCEPT !.stage = "log", !.status = status_code, !.detail = detail,
              !.inner = status_code]

\* response.headers["X-Rate-Limit-Limit"] and ["X-Rate-Limit-Remaining"],
\* set by the middleware validate_api_key after call_next returned
RateLimitHeaders(q) ==
    IF q.limited
    THEN [q EXCEPT !.limit = MaxRequestsPerHour,
                   !.remaining = MaxRequestsPerHour - q.current_count]
    ELSE q

\* an exception leaves the outermost middleware: Starlette answers 500 with
\* a plain body, none of the headers the middlewares would have added
ServerError(q, where) ==
    [q EXCEPT !.stage = "done", !.status = 500, !.detail = "Internal Server Error",
              !.limit = NULL, !.remaining = NULL, !.failed = where]

\* mutant: the middleware without its 401 branch
Authenticate_noReject(q, keys, t, locked) ==
    [q |-> [q EXCEPT !.stage = "rate"], keys |-> keys]

\* middleware validate_api_key, the header and the key store (lines 137-145):
\* the request afterwards, and the table api_keys
Authenticate(q, keys, t, locked) ==
    LET v == validate_api_key(keys, q.api_key, t, locked)
    IN  IF q.api_key = NoHeader
        THEN [q |-> Respond(q, 401, "Invalid or missing API key"), keys |-> keys]
        ELSE IF v.raised
        THEN [q |-> ServerError(q, "validate_api_key"), keys |-> keys]
        ELSE IF v.ret
        THEN [q |-> [q EXCEPT !.stage = "rate"], keys |-> v.keys]
        ELSE [q |-> Respond(q, 401, "Invalid or missing API key"), keys |-> v.keys]

\* mutant: check_rate_limit inside try/except that lets the request through
Throttle_failOpen(q, keys, limits, t, locked) ==
    LET c == check_rate_limit(keys, limits, q.api_key, MaxRequestsPerHour, t, locked)
        stored == StoredCount(keys, limits, q.api_key, HourOf(t))
        p == [q EXCEPT !.limited = TRUE, !.current_count = c.current_count,
                       !.pre = IF stored = NULL THEN 0 ELSE stored]
    IN  IF c.raised
        THEN [q |-> [p EXCEPT !.stage = "handler", !.failed = "check_rate_limit"],
              limits |-> limits]
        ELSE IF c.is_allowed
        THEN [q |-> [p EXCEPT !.stage = "handler"], limits |-> c.limits]
        ELSE [q |-> Respond(p, 429, "Rate limit exceeded"), limits |-> c.limits]

\* middleware validate_api_key, the rate limiter (lines 147-157); pre is
\* the bucket's stored count before the call
Throttle(q, keys, limits, t, locked) ==
    LET c == check_rate_limit(keys, limits, q.api_key, MaxRequestsPerHour, t, locked)
        stored == StoredCount(keys, limits, q.api_key, HourOf(t))
        p == [q EXCEPT !.limited = TRUE, !.current_count = c.current_count,
                       !.pre = IF stored = NULL THEN 0 ELSE stored]
    IN  IF c.raised
        THEN [q |-> ServerError(p, "check_rate_limit"), limits |-> limits]
        ELSE IF c.is_allowed
        THEN [q |-> [p EXCEPT !.stage = "handler"], limits |-> c.limits]
        ELSE [q |-> Respond(p, 429, "Rate limit exceeded"), limits |-> c.limits]

\* mutant: only the requests that were not refused are recorded
log_requests_skipRefused(q, keys, usage, response_time_ms, t, locked) ==
    LET g == log_request(keys, usage, q.api_key, q.path, response_time_ms, q.status,
                         t, locked)
    IN  IF q.path # "/health" /\ q.api_key # NoHeader /\ q.status \notin {401, 429}
        THEN IF g.raised
             THEN [q |-> ServerError(q, "log_request"), usage |-> usage]
             ELSE [q |-> [q EXCEPT !.stage = "done"], usage |-> g.usage]
        ELSE [q |-> [q EXCEPT !.stage = "done"], usage |-> usage]

\* mutant: the request is recorded on the way in and again on the way out
log_requests_twice(q, keys, usage, response_time_ms, t, locked) ==
    LET g == log_request(keys, usage, q.api_key, q.path, response_time_ms, q.status,
                         t, locked)
        h == log_request(keys, g.usage, q.api_key, q.path, response_time_ms, q.status,
                         t, locked)
    IN  IF q.path # "/health" /\ q.api_key # NoHeader
        THEN IF g.raised
             THEN [q |-> ServerError(q, "log_request"), usage |-> usage]
             ELSE [q |-> [q EXCEPT !.stage = "done"], usage |-> h.usage]
        ELSE [q |-> [q EXCEPT !.stage = "done"], usage |-> usage]

\* middleware log_requests after call_next returned the response of q:
\* what the client receives, and the table usage_stats
log_requests(q, keys, usage, response_time_ms, t, locked) ==
    LET g == log_request(keys, usage, q.api_key, q.path, response_time_ms, q.status,
                         t, locked)
    IN  IF q.path # "/health" /\ q.api_key # NoHeader
        THEN IF g.raised
             THEN [q |-> ServerError(q, "log_request"), usage |-> usage]
             ELSE [q |-> [q EXCEPT !.stage = "done"], usage |-> g.usage]
        ELSE [q |-> [q EXCEPT !.stage = "done"], usage |-> usage]

\* the task of request r goes on as q, or ends with q: the response sent
Move(r, q) ==
    IF q.stage = "done"
    THEN /\ served' = [n |-> served.n + 1, last |-> q]
         /\ req' = [req EXCEPT ![r] = Waiting]
    ELSE /\ req' = [req EXCEPT ![r] = q]
         /\ UNCHANGED served

InFlight == {r \in Requests : req[r].stage # "idle"}

\* mutant: the middleware validate_api_key without its test for /health
Arrive_noBypass(r, path, api_key) ==
    /\ req[r].stage = "idle"
    /\ served.n + Cardinality(InFlight) < MaxRequests
    /\ req' = [req EXCEPT ![r] =
                  [Waiting EXCEPT !.stage = "validate",
                                  !.path = path, !.api_key = api_key,
                                  !.revoked = (StoredActive(api_keys, api_key) = 0)]]
    /\ UNCHANGED <<api_keys, rate_limits, usage_stats, lock, now, callers, API_KEYS, rate_limiter, served>>

\* a request arrives: log_requests takes the start time and calls on; the
\* middleware validate_api_key passes /health straight to the router
Arrive(r, path, api_key) ==
    /\ req[r].stage = "idle"
    /\ served.n + Cardinality(InFlight) < MaxRequests
    /\ req' = [req EXCEPT ![r] =
                  [Waiting EXCEPT !.stage = IF path = "/health" THEN "handler" ELSE "validate",
                                  !.path = path, !.api_key = api_key,
                                  !.revoked = (StoredActive(api_keys, api_key) = 0)]]
    /\ UNCHANGED <<api_keys, rate_limits, usage_stats, lock, now, callers, API_KEYS, rate_limiter, served>>

MwValidate(r) ==
    /\ req[r].stage = "validate"
    /\ LET a == Authenticate(req[r], api_keys, now, lock # NoWorker)
       IN  /\ api_keys' = a.keys
           /\ Move(r, a.q)
    /\ UNCHANGED <<rate_limits, usage_stats, lock, now, callers, API_KEYS, rate_limiter>>

MwRateLimit(r) ==
    /\ req[r].stage = "rate"
    /\ LET a == Throttle(req[r], api_keys, rate_limits, now, lock # NoWorker)
       IN  /\ rate_limits' = a.limits
           /\ Move(r, a.q)
    /\ rate_limiter' = Consulted(rate_limiter, req[r].api_key, now)
    /\ UNCHANGED <<api_keys, usage_stats, lock, now, callers, API_KEYS>>

\* call_next reaches the router: /health and / answer at once (the
\* middleware then adds its headers to the answer of /); the /api route
\* runs its dependency get_api_key and then calls the provider
Dispatch(r) ==
    /\ req[r].stage = "handler"
    /\ LET q == req[r]
       IN  req' = [req EXCEPT ![r] =
              IF q.path = "/health" THEN [Respond(q, 200, "ok") EXCEPT !.dispatched = TRUE]
              ELSE IF q.path = "/"
              THEN RateLimitHeaders([Respond(q, 200, "Welcome to the Fact Checker API")
                                        EXCEPT !.dispatched = TRUE])
              ELSE IF get_api_key(API_KEYS, q.api_key)
              THEN [q EXCEPT !.stage = "provider", !.dispatched = TRUE]
              ELSE RateLimitHeaders(Respond(q, 401, "Invalid API key"))]
    /\ UNCHANGED <<api_keys, rate_limits, usage_stats, lock, now, callers, API_KEYS, rate_limiter, served>>

\* mutant: a failed provider call gives the request's quota back
Complete_refund(r, ok) ==
    /\ req[r].stage = "provider"
    /\ req' = [req EXCEPT ![r] =
                  RateLimitHeaders(IF ok THEN Respond(req[r], 200, "ok")
                                   ELSE Respond(req[r], 500, "Error performing fact check"))]
    /\ rate_limits' =
          IF ok THEN rate_limits
          ELSE [i \in 1..Len(rate_limits) |->
                   IF rate_limits[i].api_key_id = get_api_key_id(api_keys, req[r].api_key)
                   THEN [rate_limits[i] EXCEPT !.request_count = @ - 1]
                   ELSE rate_limits[i]]
    /\ UNCHANGED <<api_keys, usage_stats, lock, now, callers, API_KEYS, rate_limiter, served>>

\* fact_check: the provider answers, or fails and the handler raises
\* HTTPException(500); the middleware then adds the rate-limit headers
Complete(r, ok) ==
    /\ req[r].stage = "provider"
    /\ req' = [req EXCEPT ![r] =
                  RateLimitHeaders(IF ok THEN Respond(req[r], 200, "ok")
                                   ELSE Respond(req[r], 500, "Error performing fact check"))]
    /\ UNCHANGED <<api_keys, rate_limits, usage_stats, lock, now, callers, API_KEYS, rate_limiter, served>>

\* the client goes away while the handler awaits the provider: the task is
\* cancelled, no response is sent and log_requests records nothing
Cancel(r) ==
    /\ req[r].stage = "provider"
    /\ Move(r, [req[r] EXCEPT !.stage = "done", !.failed = "cancelled"])
    /\ UNCHANGED <<api_keys, rate_limits, usage_stats, lock, now, callers, API_KEYS, rate_limiter>>

\* log_requests after call_next: record the request, then send the response
Log(r, response_time_ms) ==
    /\ req[r].stage = "log"
    /\ LET a == log_requests(req[r], api_keys, usage_stats, response_time_ms, now,
                             lock # NoWorker)
       IN  /\ usage_stats' = a.usage
           /\ Move(r, a.q)
    /\ UNCHANGED <<api_keys, rate_limits, lock, now, callers, API_KEYS, rate_limiter>>

\* generate_api_key.py run while the server is up: add_api_key(api_key, name)
IssueKey(api_key, name) ==
    /\ lock = NoWorker
    /\ ~KeyUniqueViolated(api_keys, api_key)
    /\ api_keys' = InsertApiKey(api_keys, api_key, name, now)
    /\ UNCHANGED <<rate_limits, usage_stats, lock, now, callers, gateway>>

\* another process starts a write transaction and keeps it open
ExternalBegin ==
    /\ lock = NoWorker
    /\ lock' = External
    /\ UNCHANGED <<api_keys, rate_limits, usage_stats, now, callers, gateway>>

\* ... and commits or goes away (its own changes are not followed here)
ExternalEnd ==
    /\ lock = External
    /\ lock' = NoWorker
    /\ UNCHANGED <<api_keys, rate_limits, usage_stats, now, callers, gateway>>

\* the wall clock reaches the next hour
HourPasses ==
    /\ now + TicksPerHour <= MaxTime
    /\ now' = now + TicksPerHour
    /\ UNCHANGED <<api_keys, rate_limits, usage_stats, lock, callers, gateway>>

NextGateway ==
    \/ \E r \in Requests, p \in Paths, k \in Secrets \cup {NoHeader} : Arrive(r, p, k)
    \/ \E r \in Requests : MwValidate(r)
    \/ \E r \in Requests : MwRateLimit(r)
    \/ \E r \in Requests : Dispatch(r)
    \/ \E r \in Requests, ok \in BOOLEAN : Complete(r, ok)
    \/ \E r \in Requests : Cancel(r)
    \/ \E r \in Requests, t \in ResponseTimes : Log(r, t)
    \/ \E k \in Generated, n \in Names : IssueKey(k, n)
    \/ \E k \in Secrets : Deactivate(k)
    \/ ExternalBegin
    \/ ExternalEnd
    \/ HourPasses

SpecGateway == Init /\ [][NextGateway]_vars

\* ================================================================ claims
\* the completed calls, and those of check_rate_limit for a known key
Entries == BagToSet(hist)
RateEntries == {e \in Entries : e.op = "check_rate_limit" /\ e.api_key_id # NoId}
Buckets == (1..Cardinality(Secrets)) \X (0..HourOf(MaxTime))
InBucket(e, b) == e.api_key_id = b[1] /\ e.hour = b[2]
Quiescent == \A w \in Workers : pc[w] = "idle"

RECURSIVE CopiesOf(_)
\* how many calls the entries of S stand for
CopiesOf(S) ==
    IF S = {} THEN 0
    ELSE LET e == CHOOSE x \in S : TRUE IN CopiesIn(e, hist) + CopiesOf(S \ {e})

RECURSIVE SumCounts(_, _)
\* the request_count of the rows of a bucket, added up (0 without a row)
SumCounts(limits, b) ==
    IF limits = <<>> THEN 0
    ELSE (IF Head(limits).api_key_id = b[1] /\ Head(limits).hour_timestamp = b[2]
          THEN Head(limits).request_count ELSE 0) + SumCounts(Tail(limits), b)

\* calls for bucket b: admitted ones, completed ones, and those still running
Admitted(b) == CopiesOf({e \in RateEntries : InBucket(e, b) /\ e.ret})
Completed(b) == CopiesOf({e \in RateEntries : InBucket(e, b)})
Running(b) == Cardinality({w \in Workers : /\ pc[w] # "idle"
                                           /\ loc[w].op = "check_rate_limit"
                                           /\ loc[w].api_key_id = b[1]
                                           /\ loc[w].current_hour = b[2]})
\* the key of bucket b is active
ActiveBucket(b) == \E i \in 1..Len(api_keys) : api_keys[i].id = b[1] /\ api_keys[i].is_active = 1

\* the entries a step adds to hist: the call that returns in this step
Fresh == {e \in BagToSet(hist') : CopiesIn(e, hist') > CopiesIn(e, hist)}

\* C1: when at most MaxRequestsPerHour calls of check_rate_limit have been made
\* for a bucket of an active key, however they interleave, every one that has
\* completed returned allowed=True without raising; and a call made when the
\* bucket's stored count has reached the ceiling is rejected
C1_ConcurrentCallsAllAdmitted ==
    \A b \in Buckets : ActiveBucket(b) =>
        /\ Completed(b) + Running(b) <= MaxRequestsPerHour =>
              \A e \in RateEntries : InBucket(e, b) => e.ret /\ e.outcome = "ok"
        /\ \A e \in RateEntries :
              InBucket(e, b) /\ e.pre # NULL /\ e.pre >= MaxRequestsPerHour => ~e.ret

\* C2: under any interleaving, at most MaxRequestsPerHour calls for one bucket
\* return allowed=True and no stored request_count exceeds MaxRequestsPerHour
C2_NeverOverCeiling ==
    /\ \A b \in Buckets : Admitted(b) <= MaxRequestsPerHour
    /\ \A i \in 1..Len(rate_limits) : rate_limits[i].request_count <= MaxRequestsPerHour

\* C3: once every call has completed, the stored request_count of each bucket
\* equals the number of calls for it that returned allowed=True
C3_CountEqualsAdmitted ==
    Quiescent => \A b \in Buckets : SumCounts(rate_limits, b) = Admitted(b)

\* C3 witness: all calls are done, and a call that another call's commit
\* interfered with was admitted into a bucket holding at least two requests
C3_Witness ==
    /\ Quiescent
    /\ \E e \in RateEntries : /\ e.ret /\ ~e.solo
                              /\ SumCounts(rate_limits, <<e.api_key_id, e.hour>>) >= 2

\* C4: the counts returned to the admitted callers of one bucket are pairwise
\* distinct and are exactly 1..k for k admissions, as in a sequential order
C4_Linearizable ==
    \A b \in Buckets :
        LET adm == {e \in RateEntries : InBucket(e, b) /\ e.ret}
        IN  /\ \A e \in adm : CopiesIn(e, hist) = 1
            /\ \A e, f \in adm : e # f => e.count # f.count
            /\ {e.count : e \in adm} = 1..Admitted(b)

\* C5: a check_rate_limit call for a known key that no other commit to
\* rate_limits interferes with returns (True, 1) and stores count 1 when its
\* bucket has no row, and returns (True, c+1) and stores c+1 when the row
\* holds c < MaxRequestsPerHour
C5_SequentialAdmit ==
    \A e \in RateEntries : e.solo =>
        /\ e.pre = NULL =>
              e.outcome = "ok" /\ e.ret /\ e.count = 1 /\ e.post = 1
        /\ e.pre # NULL /\ e.pre < MaxRequestsPerHour =>
              e.outcome = "ok" /\ e.ret /\ e.count = e.pre + 1 /\ e.post = e.pre + 1

\* C5 witness: both cases have happened, the second on a row holding 1
C5_Witness ==
    /\ \E e \in RateEntries : e.solo /\ e.pre = NULL /\ e.ret /\ e.count = 1
    /\ \E e \in RateEntries : e.solo /\ e.pre = 1 /\ e.ret /\ e.count = 2 /\ e.post = 2

\* the steps of a call that has read a count at the ceiling
RejectingStep(w) ==
    /\ pc[w] = "rate_write" /\ pc'[w] # "rate_write"
    /\ loc[w].result # NULL /\ loc[w].result >= MaxRequestsPerHour

\* C6: a call that finds its bucket's row at c >= MaxRequestsPerHour returns
\* (False, c), and its steps leave api_keys, rate_limits and usage_stats as
\* they are
C6_RejectLeavesAllUnchanged ==
    /\ [](\A e \in RateEntries :
            e.solo /\ e.pre # NULL /\ e.pre >= MaxRequestsPerHour =>
                e.outcome = "ok" /\ ~e.ret /\ e.count = e.pre /\ e.post = e.pre)
    /\ [][\A w \in Workers : RejectingStep(w) =>
            /\ UNCHANGED <<api_keys, rate_limits, usage_stats>>
            /\ \A e \in Fresh : ~e.ret /\ e.count = loc[w].result]_vars

\* C6 witness: a call was rejected at the ceiling
C6_Witness ==
    \E e \in RateEntries : /\ e.solo /\ e.pre = MaxRequestsPerHour
                           /\ ~e.ret /\ e.count = MaxRequestsPerHour

\* C7: whether an uninterfered call is admitted depends on the count of its
\* own hour bucket alone, so the first call of a new hour is admitted with
\* count 1 whatever the earlier buckets hold; and a row changes only in the
\* commit of a call for that row's own key and hour, by exactly one
C7_BucketRollover ==
    /\ [](\A e \in RateEntries : e.solo =>
            /\ e.ret <=> (e.pre = NULL \/ e.pre < MaxRequestsPerHour)
            /\ e.pre = NULL => e.count = 1)
    /\ [][\A i \in 1..Len(rate_limits) :
            /\ Len(rate_limits') >= i
            /\ rate_limits'[i] # rate_limits[i] =>
                  \E w \in Workers :
                      /\ pc[w] = "rate_commit"
                      /\ loc[w].api_key_id = rate_limits[i].api_key_id
                      /\ loc[w].current_hour = rate_limits[i].hour_timestamp
                      /\ rate_limits'[i] =
                            [rate_limits[i] EXCEPT !.request_count = @ + 1]]_vars

\* C7 witness: the bucket of hour 0 is at the ceiling and the first call of
\* hour 1 was admitted with count 1
C7_Witness ==
    \E e \in RateEntries :
        /\ e.hour = 1 /\ e.pre = NULL /\ e.ret /\ e.count = 1
        /\ SumCounts(rate_limits, <<e.api_key_id, 0>>) >= MaxRequestsPerHour
        /\ SumCounts(rate_limits, <<e.api_key_id, 1>>) = 1

ValidateEntries == {e \in Entries : e.op = "validate_api_key"}
AddEntries == {e \in Entries : e.op = "add_api_key"}

\* C8: validate_api_key returns True for a secret whose row is active when
\* the call is made (every row comes from a successful add_api_key), and
\* False for a call made once the row has is_active = 0
C8_ValidateFollowsActive ==
    \A e \in ValidateEntries :
        /\ e.pre = 1 => e.ret
        /\ e.pre = 0 => ~e.ret

\* C8 witness: a secret was added, validated, deactivated and refused
C8_Witness ==
    \E a \in AddEntries : a.ret /\
        \E e, f \in ValidateEntries :
            /\ e.api_key = a.api_key /\ e.pre = 1 /\ e.ret
            /\ f.api_key = a.api_key /\ f.pre = 0 /\ ~f.ret

\* the rows that hold secret k
RowsOf(keys, k) == {i \in 1..Len(keys) : keys[i].key = k}

\* C9: add_api_key called with a secret that already has a row returns False,
\* the step that fails changes no api_keys row, and one row holds the secret
C9_DuplicateAddRejected ==
    /\ [](\A e \in AddEntries : e.pre # NULL =>
            ~e.ret /\ Cardinality(RowsOf(api_keys, e.api_key)) = 1)
    /\ [][\A e \in Fresh : e.op = "add_api_key" /\ ~e.ret =>
            api_keys' = api_keys]_vars

\* C9 witness: a second add_api_key of a secret returned False
C9_Witness ==
    \E e \in AddEntries : e.pre = 1 /\ ~e.ret /\ Cardinality(RowsOf(api_keys, e.api_key)) = 1

\* successful add_api_key calls for secret k
AddedOk(k) == CopiesOf({e \in AddEntries : e.api_key = k /\ e.ret})

\* C10: no two api_keys rows share a secret or an id, at most one add_api_key
\* per secret succeeds, and a row keeps its secret and its id
C10_KeysUniqueAndStable ==
    /\ [](/\ \A i, j \in 1..Len(api_keys) :
               i # j => api_keys[i].key # api_keys[j].key /\ api_keys[i].id # api_keys[j].id
          /\ \A k \in Secrets : AddedOk(k) <= 1)
    /\ [][\A i \in 1..Len(api_keys) :
            /\ Len(api_keys') >= i
            /\ api_keys'[i].key = api_keys[i].key
            /\ api_keys'[i].id = api_keys[i].id]_vars

\* C10 witness: two add_api_key calls for one secret ran at the same time,
\* one has returned True and the other False
C10_Witness ==
    \E k \in Secrets :
        /\ \E e \in AddEntries : e.api_key = k /\ e.ret
        /\ \E e \in AddEntries : e.api_key = k /\ ~e.ret /\ e.pre = NULL

\* the row of secret k in keys, stamped as used at t; every other row as it is
Stamped(keys, k, t) ==
    [i \in 1..Len(keys) |->
        IF keys[i].key = k THEN [keys[i] EXCEPT !.last_used = t] ELSE keys[i]]

\* C11: validate_api_key returns True exactly when a row with the secret and
\* is_active = 1 exists at its SELECT; a call that returns True stages and
\* commits that row's last_used = the time of its UPDATE and nothing else; a
\* call that returns False changes no table
C11_ValidateStampsOnlyLastUsed ==
    /\ [](\A e \in ValidateEntries : e.ret <=> e.pre = 1)
    /\ [][\A w \in Workers :
            /\ pc[w] = "validate_update" /\ pc'[w] = "validate_commit" =>
                  /\ loc'[w].txn = Stamped(api_keys, loc[w].api_key, now)
                  /\ UNCHANGED <<api_keys, rate_limits, usage_stats>>
            /\ pc[w] = "validate_commit" /\ pc'[w] = "idle" =>
                  /\ api_keys' = loc[w].txn
                  /\ \E t \in 0..now : api_keys' = Stamped(api_keys, loc[w].api_key, t)
                  /\ UNCHANGED <<rate_limits, usage_stats>>]_vars
    /\ [][\A e \in Fresh : e.op = "validate_api_key" /\ ~e.ret =>
            UNCHANGED <<api_keys, rate_limits, usage_stats>>]_vars

\* C11 witness: with two rows stored, a validation returned True and stamped
\* its own row only, and another validation returned False
C11_Witness ==
    /\ \E e \in ValidateEntries : ~e.ret
    /\ \E e \in ValidateEntries :
          /\ e.ret
          /\ \E i, j \in 1..Len(api_keys) :
                /\ api_keys[i].key = e.api_key /\ api_keys[i].last_used # NULL
                /\ api_keys[j].key # e.api_key /\ api_keys[j].last_used = NULL

\* ------------------------------------------------- claims about the server
\* the protected request q (any path but /health) has been answered
Answered(q) == q.stage = "done" /\ q.failed # "cancelled" /\ q.path # "/health"

\* the key of the request q is missing, unknown or deactivated in keys
Unauthorized(q, keys) == q.api_key = NoHeader \/ StoredActive(keys, q.api_key) # 1

\* every row of api_keys stays, with its id and its secret
RowsKept ==
    /\ Len(api_keys') >= Len(api_keys)
    /\ \A i \in 1..Len(api_keys) :
          api_keys'[i].id = api_keys[i].id /\ api_keys'[i].key = api_keys[i].key

\* C12: a protected request whose key is missing, unknown or deactivated when
\* the middleware validates it is answered 401 there: check_rate_limit is not
\* called for it, and neither that step nor a later step of the request
\* creates or increments a rate_limits row
C12_RejectedBeforeRateLimiter ==
    /\ [][\A r \in Requests :
            req[r].stage = "validate" /\ req'[r] # req[r] /\ Unauthorized(req[r], api_keys) =>
                /\ req'[r].stage = "log" /\ req'[r].status = 401
                /\ ~req'[r].limited
                /\ rate_limits' = rate_limits]_vars
    /\ [][\A r \in Requests :
            req[r].stage = "log" /\ ~req[r].limited /\ req'[r] # req[r] =>
                /\ rate_limits' = rate_limits
                /\ ~served'.last.limited]_vars

\* C12 witness: a request with a deactivated key was answered 401 while that
\* key's bucket of the hour, opened before, stays at 1 under the ceiling
C12_Witness ==
    /\ Answered(served.last) /\ served.last.revoked
    /\ served.last.status = 401 /\ ~served.last.limited
    /\ StoredCount(api_keys, rate_limits, served.last.api_key, HourOf(now)) = 1

\* C13: a protected request that arrives with a deactivated key is answered 401
\* and its route handler never runs, and no step deletes a row of api_keys
C13_DeactivatedKeyGets401 ==
    /\ [](Answered(served.last) /\ served.last.revoked =>
            served.last.status = 401 /\ ~served.last.dispatched)
    /\ [][RowsKept]_vars

\* what a client is sent for POST /api/fact-check with the secret api_key when
\* the middleware rejects it, handled to the end in the present state: status,
\* body and the two rate-limit headers
Reply(api_key) ==
    LET q == [Waiting EXCEPT !.stage = "validate", !.path = "/api/fact-check",
                             !.api_key = api_key]
        a == Authenticate(q, api_keys, now, lock # NoWorker)
        b == log_requests(a.q, a.keys, usage_stats, CHOOSE t \in ResponseTimes : TRUE,
                          now, lock # NoWorker)
        sent == IF a.q.stage = "log" THEN b.q ELSE a.q
    IN  <<sent.status, sent.detail, sent.limit, sent.remaining>>

\* C14: in every state of the store, the same request is answered alike with
\* a secret that has no row and with a secret whose row is deactivated
C14_UnknownAndDeactivatedAlike ==
    \A k1, k2 \in Secrets :
        StoredActive(api_keys, k1) = NULL /\ StoredActive(api_keys, k2) = 0 =>
            Reply(k1) = Reply(k2)

\* C15: a protected request that passed the key store's validation and was
\* within its quota at the rate limiter is never answered 401
C15_ActiveKeyNever401 ==
    Answered(served.last) /\ served.last.limited /\ served.last.failed = "none"
        /\ served.last.pre < MaxRequestsPerHour
    => served.last.status # 401

\* the bucket's count after the rate limiter saw the request q
CountAfter(q) == IF q.pre < MaxRequestsPerHour THEN q.pre + 1 ELSE q.pre

\* C16: every response to a protected request that reached the rate limiter,
\* admitted or answered 429, carries the ceiling and the remaining quota of
\* the bucket (ceiling minus count, not below 0)
C16_RateLimitHeadersAlways ==
    Answered(served.last) /\ served.last.limited /\ served.last.failed = "none" =>
        /\ served.last.limit = MaxRequestsPerHour
        /\ served.last.remaining =
              IF MaxRequestsPerHour > CountAfter(served.last)
              THEN MaxRequestsPerHour - CountAfter(served.last) ELSE 0

\* C17: the n-th request of a key in an hour (n - 1 requests counted before
\* it) is admitted with remaining = ceiling - n while n is at most the
\* ceiling, and the next one is answered 429 with remaining = 0
C17_RemainingCountsDown ==
    Answered(served.last) /\ served.last.limited /\ served.last.failed = "none" =>
        IF served.last.pre < MaxRequestsPerHour
        THEN /\ served.last.status # 429
             /\ served.last.remaining = MaxRequestsPerHour - (served.last.pre + 1)
        ELSE /\ served.last.status = 429
             /\ served.last.remaining = 0

\* C18: when log_request raised, the client was still sent the response that
\* came back through call_next, with its status
C18_LogFailureSwallowed ==
    Answered(served.last) /\ served.last.failed = "log_request" =>
        /\ served.last.status = served.last.inner
        /\ served.last.detail # "Internal Server Error"

\* C19: a request for which validate_api_key or check_rate_limit raised ends
\* there with a 500, its route handler never runs, and the step in which
\* check_rate_limit raised leaves rate_limits as it was
C19_FailClosed ==
    /\ [](\A q \in {req[r] : r \in Requests} \cup {served.last} :
            q.failed \in {"validate_api_key", "check_rate_limit"} =>
                q.stage = "done" /\ q.status = 500 /\ ~q.dispatched)
    /\ [][\A r \in Requests :
            /\ req[r].stage = "rate"
            /\ served'.n = served.n + 1
            /\ served'.last.failed = "check_rate_limit"
            => rate_limits' = rate_limits]_vars

\* C19 witness: check_rate_limit raised on a bucket that stood at 1, and the
\* bucket still stands at 1
C19_Witness ==
    /\ served.last.failed = "check_rate_limit"
    /\ served.last.pre = 1
    /\ StoredCount(api_keys, rate_limits, served.last.api_key, HourOf(now)) = 1

\* the rate limiter admitted the request q, which is still being handled
Charged(q) == q.limited /\ q.stage \in {"handler", "provider", "log"} /\ q.status # 429

\* C20: after the rate limiter admitted a request, no step of that request
\* (the dependency's 401, the handler's failure, cancellation, logging)
\* changes rate_limits or api_keys
C20_ChargedOnAdmission ==
    [][\A r \in Requests :
          Charged(req[r]) /\ req'[r] # req[r] =>
              rate_limits' = rate_limits /\ api_keys' = api_keys]_vars

\* C20 witness: an admitted request failed in its handler or was cancelled,
\* and its bucket still holds the count it was admitted with
C20_Witness ==
    /\ served.last.stage = "done" /\ served.last.limited
    /\ \/ served.last.detail = "Error performing fact check"
       \/ served.last.failed = "cancelled"
    /\ StoredCount(api_keys, rate_limits, served.last.api_key, HourOf(now))
          = served.last.current_count
    /\ served.last.current_count = MaxRequestsPerHour

\* ------------------------------------------------ claims about the ledger
\* the sequence s is the beginning of the sequence t
IsPrefix(s, t) == Len(s) <= Len(t) /\ \A i \in 1..Len(s) : t[i] = s[i]

\* C21: every step leaves the rows of usage_stats as they are and at most
\* appends rows after them: no row is updated or deleted
C21_LedgerAppendOnly == [][IsPrefix(usage_stats, usage_stats')]_vars

\* C21 witness: log_request committed a second record after a first one
C21_Witness ==
    /\ Len(usage_stats) >= 2
    /\ \E e \in Entries : e.op = "log_request" /\ e.post = 2

\* ------------------------------------------ claims about the request's path
\* the request of task r after the step: the response sent if the step ends it
After(r) ==
    IF req[r].stage # "idle" /\ req'[r].stage = "idle" THEN served'.last ELSE req'[r]

\* the step is the last one of the request of task r, taken by log_requests
\* with the response the inner middleware returned
Logged(r) == req[r].stage = "log" /\ req'[r].stage = "idle"

\* the steps of the protected request of task r come in order: the rate
\* limiter after validate_api_key returned True, the route handler after
\* check_rate_limit returned allowed, and usage_stats is written by the last
\* step only, when the response exists
Ordered(r) ==
    LET q == req[r]
        p == After(r)
    IN  /\ p.stage = "rate" /\ q.stage # "rate" =>
              q.stage = "validate" /\ StoredActive(api_keys, q.api_key) = 1
        /\ p.limited /\ ~q.limited => q.stage = "rate"
        /\ p.stage = "handler" /\ q.stage # "handler" /\ p.path # "/health" =>
              q.stage = "rate" /\ p.pre < MaxRequestsPerHour /\ p.failed = "none"
        /\ p.dispatched /\ ~q.dispatched /\ p.path # "/health" =>
              q.stage = "handler" /\ q.limited
        /\ usage_stats' # usage_stats => Logged(r) /\ q.status # 0

\* the step appends one record to usage_stats, for the request q
AppendsOne(q) ==
    /\ Len(usage_stats') = Len(usage_stats) + 1
    /\ IsPrefix(usage_stats, usage_stats')
    /\ usage_stats'[Len(usage_stats')].api_key_id = get_api_key_id(api_keys, q.api_key)
    /\ usage_stats'[Len(usage_stats')].endpoint = q.path
    /\ usage_stats'[Len(usage_stats')].status_code = q.status

C23_OneRowPerBucketCountGrows ==
    /\ [](\A i, j \in 1..Len(rate_limits) :
            /\ rate_limits[i].api_key_id = rate_limits[j].api_key_id
            /\ rate_limits[i].hour_timestamp = rate_limits[j].hour_timestamp
            => i = j)
    /\ [][/\ Len(rate_limits') >= Len(rate_limits)
          /\ \A i \in 1..Len(rate_limits) :
                /\ rate_limits'[i].api_key_id = rate_limits[i].api_key_id
                /\ rate_limits'[i].hour_timestamp = rate_limits[i].hour_timestamp
                /\ rate_limits'[i].request_count \in
                      {rate_limits[i].request_count, rate_limits[i].request_count + 1}]_vars

\* C23 witness: a bucket was counted up to 2, and the next hour opened a
\* second row
C23_Witness ==
    /\ Len(rate_limits) = 2
    /\ rate_limits[1].request_count = 2
    /\ rate_limits[2].hour_timestamp # rate_limits[1].hour_timestamp

\* -------------------------------------------------------- the bootstrap
(***************************************************************************)
(* init_db.py run as a program: the tables are created if missing and the  *)
(* keys of VALID_API_KEYS are added.  Here the value of the variable is    *)
(* spelled in characters, so that split(",") and strip() are computed;     *)
(* a secret is the sequence of its characters.                             *)
(***************************************************************************)
Alphabet == {",", " ", "a", "z"}

\* the values of VALID_API_KEYS of at most n characters
RECURSIVE EnvValues(_)
EnvValues(n) ==
    IF n = 0 THEN {<<>>}
    ELSE LET shorter == EnvValues(n - 1)
         IN  shorter \cup {Append(s, c) : s \in shorter, c \in Alphabet}

\* str.split(","): the fields between the commas, at least one
RECURSIVE SplitComma(_)
SplitComma(s) ==
    LET commas == {i \in 1..Len(s) : s[i] = ","}
        first == CHOOSE i \in commas : \A j \in commas : i <= j
    IN  IF commas = {} THEN <<s>>
        ELSE <<SubSeq(s, 1, first - 1)>> \o SplitComma(SubSeq(s, first + 1, Len(s)))

\* str.strip(): without the leading and the trailing whitespace
RECURSIVE lstrip(_)
lstrip(s) == IF s # <<>> /\ Head(s) = " " THEN lstrip(Tail(s)) ELSE s
RECURSIVE rstrip(_)
rstrip(s) == IF s # <<>> /\ s[Len(s)] = " " THEN rstrip(SubSeq(s, 1, Len(s) - 1)) ELSE s
strip(s) == rstrip(lstrip(s))

\* init_db.add_api_key(key, name): INSERT, IntegrityError logged as a warning
add_api_key(keys, key, name, t) ==
    IF KeyUniqueViolated(keys, key) THEN keys ELSE InsertApiKey(keys, key, name, t)

\* for i, key in enumerate(valid_api_keys), from the i-th field on (i from 1)
RECURSIVE AddFrom(_, _, _, _)
AddFrom(keys, valid_api_keys, i, t) ==
    IF i > Len(valid_api_keys) THEN keys
    ELSE LET key == strip(valid_api_keys[i])
             added == IF key # <<>>
                      THEN add_api_key(keys, key,
                                       "Key " \o ToString(i) \o " from environment", t)
                      ELSE keys
         IN  AddFrom(added, valid_api_keys, i + 1, t)

\* mutant: the loop without its guard on the first field
bootstrap_noGuard(keys, valid_api_keys, t) == AddFrom(keys, valid_api_keys, 1, t)

\* the __main__ block after init_db(): the table api_keys afterwards
bootstrap(keys, valid_api_keys, t) ==
    IF valid_api_keys # <<>> /\ valid_api_keys[1] # <<>>
    THEN AddFrom(keys, valid_api_keys, 1, t)
    ELSE keys

\* the program runs against a store that is empty or holds a generated key
InitBootstrap ==
    /\ \E env \in EnvValues(MaxEnvLen) : API_KEYS = SplitComma(env)
    /\ api_keys \in {<<>>, InsertApiKey(<<>>, <<"a">>, "cli", 0)}
    /\ rate_limits = <<>>
    /\ usage_stats = <<>>
    /\ lock = NoWorker
    /\ now = 0
    /\ pc = [w \in Workers |-> "idle"]
    /\ loc = [w \in Workers |-> Idle]
    /\ hist = EmptyBag
    /\ req = [r \in Requests |-> Waiting]
    /\ served = [n |-> 0, last |-> Waiting]
    /\ rate_limiter = RateLimiter(MaxRequestsPerHour, TicksPerHour)

\* python init_db.py, once more
Bootstrap ==
    /\ BagCardinality(hist) < MaxCalls
    /\ api_keys' = bootstrap(api_keys, API_KEYS, now)
    /\ hist' = Record([op |-> "init_db", before |-> api_keys, after |-> api_keys', at |-> now])
    /\ UNCHANGED <<rate_limits, usage_stats, lock, now, pc, loc, gateway>>

NextBootstrap ==
    \/ Bootstrap
    \/ Tick

SpecBootstrap == InitBootstrap /\ [][NextBootstrap]_vars

\* ------------------------------------------- claims about the bootstrap
\* the secrets a field spells: the part between its leading and its
\* trailing blanks, when that part is not empty
Spelled(f) ==
    {k \in {SubSeq(f, i, j) : i, j \in 1..Len(f)} :
        /\ k # <<>> /\ k[1] # " " /\ k[Len(k)] # " "
        /\ \E i, j \in 1..Len(f) :
              /\ k = SubSeq(f, i, j)
              /\ \A m \in 1..Len(f) : m < i \/ m > j => f[m] = " "}

\* the secrets a list of fields asks for
Wanted(fields) == UNION {Spelled(fields[n]) : n \in 1..Len(fields)}

\* C24: every run of the bootstrap keeps the rows it found, leaves exactly
\* one row for each secret the list asks for and adds no other row, and a
\* further run on its result changes nothing
C24_BootstrapIdempotent ==
    \A e \in BagToSet(hist) :
        /\ IsPrefix(e.before, e.after)
        /\ \A k \in Wanted(API_KEYS) : Cardinality(RowsOf(e.after, k)) = 1
        /\ \A i \in 1..Len(e.after) :
              i > Len(e.before) => e.after[i].key \in Wanted(API_KEYS)
        /\ bootstrap(e.after, API_KEYS, now) = e.after

\* a step of an HTTP request: it arrives, passes a middleware or the
\* router, or is answered
HttpStep == req' # req \/ served' # served

\* the rows a and b of api_keys differ in last_used at most
SameButLastUsed(a, b) == [a EXCEPT !.last_used = b.last_used] = b

\* C25: no step of an HTTP request, whatever its path and its key header,
\* inserts or removes a row of api_keys or changes the id, key, name,
\* created_at or is_active of a row; last_used is all it can change
C25_NoIssuanceOverHttp ==
    [][HttpStep =>
          /\ Len(api_keys') = Len(api_keys)
          /\ \A i \in 1..Len(api_keys) : SameButLastUsed(api_keys[i], api_keys'[i])]_vars

\* a request with a stored key has been answered 200 and has stamped the
\* last_used of its row
C25_Witness ==
    /\ served.n >= 1
    /\ \E i \in 1..Len(api_keys) :
          api_keys[i].key = served.last.api_key /\ api_keys[i].last_used # NULL
    /\ served.last.status = 200

\* ------------------------------------------------------- get_usage_stats
(***************************************************************************)
(* DBService.get_usage_stats(api_key, days): the usage records of the last *)
(* `days` days, of one key or of all, grouped by endpoint and calendar     *)
(* date.  AVG is the rational sum / count, kept in lowest terms.  ORDER BY *)
(* date DESC, count DESC leaves the order of rows that tie open, so the    *)
(* result is one of a set of sequences.                                    *)
(***************************************************************************)
TicksPerDay == 24 * TicksPerHour

\* strftime('%Y-%m-%d', timestamp)
DateOf(t) == t \div TicksPerDay

\* timestamp >= datetime('now', '-N days')
InWindow(timestamp, days, t) == timestamp >= t - days * TicksPerDay

\* mutant: the WHERE clause without the key
Selected_allKeys(keys, usage, api_key, days, t) ==
    {i \in 1..Len(usage) : InWindow(usage[i].timestamp, days, t)}

\* the records the WHERE clause selects; `if api_key:` is false for None and ""
Selected(keys, usage, api_key, days, t) ==
    {i \in 1..Len(usage) :
        /\ api_key # NoHeader => usage[i].api_key_id = get_api_key_id(keys, api_key)
        /\ InWindow(usage[i].timestamp, days, t)}

\* GROUP BY endpoint, date: the groups of the selected records
Groups(usage, S) == {<<usage[i].endpoint, DateOf(usage[i].timestamp)>> : i \in S}

RECURSIVE SumTimes(_, _)
SumTimes(usage, S) ==
    IF S = {} THEN 0
    ELSE LET i == CHOOSE j \in S : TRUE
         IN  usage[i].response_time_ms + SumTimes(usage, S \ {i})

\* p / q in lowest terms, q > 0
Rational(p, q) ==
    LET d == CHOOSE c \in 1..q : /\ p % c = 0 /\ q % c = 0
                                 /\ \A b \in 1..q : p % b = 0 /\ q % b = 0 => b <= c
    IN  [num |-> p \div d, den |-> q \div d]

\* mutant: the records grouped by endpoint only
Aggregate_byEndpoint(usage, S, g) ==
    LET M == {i \in S : usage[i].endpoint = g[1]}
    IN  [endpoint |-> g[1], count |-> Cardinality(M),
         avg_response_time |-> Rational(SumTimes(usage, M), Cardinality(M)),
         date |-> g[2]]

\* endpoint, COUNT(*), AVG(response_time_ms), date of the group g
Aggregate(usage, S, g) ==
    LET M == {i \in S : usage[i].endpoint = g[1] /\ DateOf(usage[i].timestamp) = g[2]}
    IN  [endpoint |-> g[1], count |-> Cardinality(M),
         avg_response_time |-> Rational(SumTimes(usage, M), Cardinality(M)),
         date |-> g[2]]

\* ORDER BY date DESC, count DESC: the row a must come before the row b
Before(a, b) == a.date > b.date \/ (a.date = b.date /\ a.count > b.count)

\* the sequences of the rows that the ORDER BY allows: a row comes first
\* if none must come before it
RECURSIVE Orders(_)
Orders(rows) ==
    IF rows = {} THEN {<<>>}
    ELSE UNION {{<<m>> \o s : s \in Orders(rows \ {m})} :
                   m \in {a \in rows : \A b \in rows : ~Before(b, a)}}

\* the results the call can return: [] for an unknown key, else the
\* aggregate rows in one of the orders the ORDER BY allows
get_usage_stats(keys, usage, api_key, days, t) ==
    IF api_key # NoHeader /\ get_api_key_id(keys, api_key) = NoId THEN {<<>>}
    ELSE LET S == Selected(keys, usage, api_key, days, t)
         IN  Orders({Aggregate(usage, S, g) : g \in Groups(usage, S)})

\* the windows asked for: one day, and the default of seven
Windows == {1, 7}

\* ------------------------------------------------ claims: unknown secrets
\* the calls that return in this step
NewEntries == {e \in BagToSet(hist') : CopiesIn(e, hist') > CopiesIn(e, hist)}

\* no row of keys holds the secret
Unrecognized(keys, api_key) == \A i \in 1..Len(keys) : keys[i].key # api_key

\* C26: for a secret without a row get_api_key_id returns None and
\* get_usage_stats returns the empty sequence, and a call of
\* validate_api_key, check_rate_limit or log_request with it returns False,
\* (False, 0), or without a record, and leaves the three tables as they are
C26_UnrecognizedSecretNegative ==
    /\ [](\A k \in Secrets : Unrecognized(api_keys, k) =>
             /\ get_api_key_id(api_keys, k) = NoId
             /\ \A d \in Windows : get_usage_stats(api_keys, usage_stats, k, d, now) = {<<>>})
    /\ [][\A e \in NewEntries :
             /\ e.op \in {"validate_api_key", "check_rate_limit", "log_request"}
             /\ Unrecognized(api_keys, e.api_key)
             => /\ e.ret = FALSE /\ e.count = 0 /\ e.outcome = "ok"
                /\ UNCHANGED <<api_keys, rate_limits, usage_stats>>]_vars

\* check_rate_limit and log_request have returned for a secret without a
\* row, while the ledger holds a record of another key
C26_Witness ==
    \E k \in Secrets :
        /\ Unrecognized(api_keys, k)
        /\ usage_stats # <<>>
        /\ \E e \in Entries : e.api_key = k /\ e.op = "check_rate_limit"
        /\ \E e \in Entries : e.api_key = k /\ e.op = "log_request"

\* ------------------------------------------------------------ the ledger
(***************************************************************************)
(* Requests are recorded over several days, for two endpoints and with     *)
(* different response times, and the statistics are read in between.  One  *)
(* caller at a time: a call is one step.  hist holds the calls made: of a  *)
(* log_request its arguments and the time, of a get_usage_stats its        *)
(* arguments, the time, the result, and the log_request calls before it.   *)
(***************************************************************************)
LedgerEndpoints == {"/api/fact-check", "/api/generate-response"}
Latencies == {7, 10}

InitLedger ==
    /\ API_KEYS = Split(<<"abc123">>)
    /\ api_keys \in {Seeded, InsertApiKey(Seeded, "zzz999", "cli", 0)}
    /\ rate_limits = <<>>
    /\ usage_stats = <<>>
    /\ lock = NoWorker
    /\ now = 0
    /\ pc = [w \in Workers |-> "idle"]
    /\ loc = [w \in Workers |-> Idle]
    /\ hist = EmptyBag
    /\ req = [r \in Requests |-> Waiting]
    /\ served = [n |-> 0, last |-> Waiting]
    /\ rate_limiter = RateLimiter(MaxRequestsPerHour, TicksPerHour)

\* the log_request calls among the calls made
LoggedCalls(h) ==
    LET L == {e \in BagToSet(h) : e.op = "log_request"}
    IN  [e \in L |-> CopiesIn(e, h)]

\* the statistics have not been read yet.  Reading them changes nothing and
\* a result depends on the calls before it only, so a behaviour ends when
\* the statistics are read
Recording == \A e \in BagToSet(hist) : e.op = "log_request"

\* db_service.log_request(api_key, endpoint, response_time_ms, status_code)
LogRequest(api_key, endpoint, response_time_ms, status_code) ==
    /\ Recording
    /\ BagCardinality(hist) < MaxRecords
    /\ usage_stats' = log_request(api_keys, usage_stats, api_key, endpoint,
                                  response_time_ms, status_code, now, FALSE).usage
    /\ hist' = Record([op |-> "log_request", api_key |-> api_key, endpoint |-> endpoint,
                       response_time_ms |-> response_time_ms, at |-> now])
    /\ UNCHANGED <<api_keys, rate_limits, lock, now, pc, loc, gateway>>

\* the results that get_usage_stats can return for each of the keys K
RECURSIVE ResultsFor(_, _)
ResultsFor(K, days) ==
    IF K = {} THEN {<<>>}
    ELSE LET k == CHOOSE x \in K : TRUE
         IN  {(k :> r) @@ f : r \in get_usage_stats(api_keys, usage_stats, k, days, now),
                              f \in ResultsFor(K \ {k}, days)}

\* db_service.get_usage_stats(api_key, days), called for each secret and
\* for no key on the same ledger
Query(days) ==
    /\ Recording
    /\ \E results \in ResultsFor(Secrets \cup {NoHeader}, days) :
          hist' = Record([op |-> "get_usage_stats", days |-> days, at |-> now,
                          results |-> results, logged |-> LoggedCalls(hist)])
    /\ UNCHANGED <<api_keys, rate_limits, usage_stats, lock, now, pc, loc, gateway>>

\* midnight passes
DayPasses ==
    /\ Recording
    /\ DateOf(now) < MaxDays
    /\ now' = now + TicksPerDay
    /\ UNCHANGED <<api_keys, rate_limits, usage_stats, lock, pc, loc, hist, gateway>>

NextLedger ==
    \/ \E k \in Secrets, e \in LedgerEndpoints, t \in Latencies, s \in StatusCodes :
          LogRequest(k, e, t, s)
    \/ \E d \in Windows : Query(d)
    \/ DayPasses

SpecLedger == InitLedger /\ [][NextLedger]_vars

\* ------------------------------------------------ claims about the statistics
\* the reads of the statistics made
Queries == {e \in BagToSet(hist) : e.op = "get_usage_stats"}

\* the recorded log_request calls that the read q, asked for the key k,
\* counts in the group of endpoint and date: of a key with a row, of k if
\* k is a key, and no older than the window
CountedIn(q, k, endpoint, date) ==
    {c \in DOMAIN q.logged :
        /\ ~Unrecognized(api_keys, c.api_key)
        /\ k # NoHeader => c.api_key = k
        /\ c.endpoint = endpoint
        /\ c.at \div TicksPerDay = date
        /\ q.at - c.at <= q.days * TicksPerDay}

\* the number of the calls C recorded in the bag b, and their total time
RECURSIVE CopiesOfAll(_, _)
CopiesOfAll(b, C) ==
    IF C = {} THEN 0
    ELSE LET c == CHOOSE x \in C : TRUE IN b[c] + CopiesOfAll(b, C \ {c})
RECURSIVE TimeOfAll(_, _)
TimeOfAll(b, C) ==
    IF C = {} THEN 0
    ELSE LET c == CHOOSE x \in C : TRUE
         IN  b[c] * c.response_time_ms + TimeOfAll(b, C \ {c})

\* the rows of a result for the group of endpoint and date
RowsIn(result, endpoint, date) ==
    {i \in 1..Len(result) : result[i].endpoint = endpoint /\ result[i].date = date}

\* C27: in every result of get_usage_stats the row of a group reports as
\* count the number N of the records logged for that endpoint and date
\* within the window, and an average that is the sum of their response
\* times divided by N; each group with a record has exactly one row
C27_AggregateCountAndMean ==
    \A q \in Queries :
        \A k \in Secrets \cup {NoHeader} :
            /\ \A i \in 1..Len(q.results[k]) :
                  LET row == q.results[k][i]
                      C == CountedIn(q, k, row.endpoint, row.date)
                      N == CopiesOfAll(q.logged, C)
                  IN  /\ N >= 1
                      /\ row.count = N
                      /\ row.avg_response_time.num * N
                            = TimeOfAll(q.logged, C) * row.avg_response_time.den
            /\ \A e \in LedgerEndpoints, d \in 0..MaxDays :
                  CountedIn(q, k, e, d) # {}
                  => Cardinality(RowsIn(q.results[k], e, d)) = 1

\* a result has a row of count 2 whose average is not a whole number: its
\* two records differ in their response times
C27_Witness ==
    \E q \in Queries, k \in Secrets, i \in 1..MaxRecords :
        /\ i <= Len(q.results[k])
        /\ q.results[k][i].count = 2
        /\ q.results[k][i].avg_response_time.den = 2

\* the count a result reports for the group of endpoint and date, 0
\* without a row
CountIn(result, endpoint, date) ==
    LET R == RowsIn(result, endpoint, date)
    IN  IF R = {} THEN 0 ELSE result[CHOOSE i \in R : TRUE].count

\* the counts that the results of the keys K report for a group, added up
RECURSIVE SumOfCounts(_, _, _, _)
SumOfCounts(K, results, endpoint, date) ==
    IF K = {} THEN 0
    ELSE LET k == CHOOSE x \in K : TRUE
         IN  CountIn(results[k], endpoint, date)
                + SumOfCounts(K \ {k}, results, endpoint, date)

\* C28: when the statistics are read for each key and for no key, the
\* result for a stored key has no row for a group without a logged request
\* of that key, the result for no key counts in each group the sum of the
\* counts of the results for the keys, and every result is in the order of
\* date descending, then count descending
C28_PerKeyAndAllKeys ==
    \A q \in Queries :
        /\ \A k \in Secrets :
              \A i \in 1..Len(q.results[k]) :
                 \E c \in DOMAIN q.logged :
                    /\ c.api_key = k
                    /\ c.endpoint = q.results[k][i].endpoint
                    /\ c.at \div TicksPerDay = q.results[k][i].date
        /\ \A e \in LedgerEndpoints, d \in 0..MaxDays :
              CountIn(q.results[NoHeader], e, d) = SumOfCounts(Secrets, q.results, e, d)
        /\ \A k \in Secrets \cup {NoHeader} :
              \A i \in 1..Len(q.results[k]) - 1 :
                 LET a == q.results[k][i]
                     b == q.results[k][i + 1]
                 IN  a.date > b.date \/ (a.date = b.date /\ a.count >= b.count)

\* the result for no key has, for one date, a row of count 2 before a row
\* of count 1, and the two requests of the first row are of different keys
C28_Witness ==
    \E q \in Queries :
        LET all == q.results[NoHeader]
        IN  /\ Len(all) = 2
            /\ all[1].date = all[2].date
            /\ all[1].count = 2 /\ all[2].count = 1
            /\ \A k \in Secrets : CountIn(q.results[k], all[1].endpoint, all[1].date) = 1

\* ------------------------------------------- claims: one key and another
\* the operation and the secret of the call of which worker w takes a step
OpOf(w) == IF pc[w] = "idle" THEN loc'[w].op ELSE loc[w].op
KeyOf(w) == IF pc[w] = "idle" THEN loc'[w].api_key ELSE loc[w].api_key

\* the step keeps every row of api_keys and of rate_limits that is not of
\* the secret a, and adds no such row
OthersKept(a) ==
    /\ Len(api_keys') = Len(api_keys)
    /\ \A i \in 1..Len(api_keys) : api_keys[i].key # a => api_keys'[i] = api_keys[i]
    /\ Len(rate_limits') >= Len(rate_limits)
    /\ \A j \in 1..Len(rate_limits') :
          \/ rate_limits'[j].api_key_id = get_api_key_id(api_keys, a)
          \/ j <= Len(rate_limits) /\ rate_limits'[j] = rate_limits[j]

\* C29: a step of a call of validate_api_key, check_rate_limit or
\* log_request for a secret changes no row of api_keys or rate_limits of
\* another secret and nothing that a call running in another worker has
\* read, and the count that check_rate_limit reads, on which it admits or
\* rejects, is that of the bucket of its own secret
C29_KeysIndependent ==
    [][\A w \in Workers :
          /\ pc'[w] # pc[w]
          /\ OpOf(w) \in {"validate_api_key", "check_rate_limit", "log_request"}
          => /\ OthersKept(KeyOf(w))
             /\ \A v \in Workers \ {w} :
                   pc'[v] = pc[v] /\ [loc'[v] EXCEPT !.solo = loc[v].solo] = loc[v]
             /\ pc[w] = "rate_select" =>
                   loc'[w].result = StoredCount(api_keys, rate_limits, loc[w].api_key,
                                                loc[w].current_hour)]_vars

\* two secrets have a bucket each, and a call of check_rate_limit for one
\* of them has returned after the bucket of the other was there
C29_Witness ==
    \E i, j \in 1..Len(rate_limits) :
        /\ rate_limits[i].api_key_id # rate_limits[j].api_key_id
        /\ \E e \in Entries : /\ e.op = "check_rate_limit" /\ e.ret = TRUE
                              /\ e.api_key_id = rate_limits[j].api_key_id
                              /\ i < j

\* ------------------------------------------- claims: refused and recorded
\* the protected request q was answered 429, or 401 while its key has a
\* row that is deactivated
RefusedWithRow(q) ==
    \/ q.status = 429
    \/ q.status = 401 /\ StoredActive(api_keys, q.api_key) = 0

\* the protected request q came without a key, or with one that has no row
Keyless(q) == q.api_key = NoHeader \/ Unrecognized(api_keys, q.api_key)

\* C30 as claimed: when log_requests ends a protected request that was
\* never dispatched, a request answered 429 or answered 401 for a
\* deactivated key appends exactly one usage record with that status, and
\* a request whose key is missing or has no row appends none
C30_RefusedStillRecorded ==
    [][\A r \in Requests :
          Logged(r) /\ ~req[r].dispatched /\ req[r].path # "/health" =>
             /\ RefusedWithRow(req[r]) => AppendsOne(req[r])
             /\ Keyless(req[r]) => usage_stats' = usage_stats]_vars

\* C30 amended: as claimed when log_request returns; when log_request
\* raises, the refused request appends no record
C30_RefusedRecordedUnlessRaised ==
    [][\A r \in Requests :
          Logged(r) /\ ~req[r].dispatched /\ req[r].path # "/health" =>
             /\ RefusedWithRow(req[r]) =>
                   IF served'.last.failed = "log_request"
                   THEN usage_stats' = usage_stats
                   ELSE AppendsOne(req[r])
             /\ Keyless(req[r]) => usage_stats' = usage_stats]_vars

\* C30 witness: a request over quota was answered 429 without being
\* dispatched and its record, with status 429, is the last of the ledger
C30_Witness ==
    /\ Answered(served.last) /\ ~served.last.dispatched
    /\ served.last.status = 429 /\ served.last.failed = "none"
    /\ usage_stats # <<>>
    /\ usage_stats[Len(usage_stats)].status_code = 429

\* --------------------------------------- claims: the count that is returned
\* the X-Rate-Limit-Remaining header the middleware computes from the
\* current_count that check_rate_limit returned
RemainingFor(current_count) ==
    RateLimitHeaders([Waiting EXCEPT !.limited = TRUE,
                                     !.current_count = current_count]).remaining

\* C31: every call of check_rate_limit that returned allowed = True returned
\* a current_count from 1 to the ceiling, however the calls interleaved, so
\* the remaining-quota header computed from it is at least 0 and at most
\* the ceiling less 1
C31_AdmittedCountInRange ==
    \A e \in RateEntries :
        e.ret => /\ e.count \in 1..MaxRequestsPerHour
                 /\ RemainingFor(e.count) \in 0..(MaxRequestsPerHour - 1)

\* C31 witness: two calls raced past the ceiling: the row holds more than
\* the ceiling, and an admitted call returned the ceiling itself
C31_Witness ==
    /\ \E i \in 1..Len(rate_limits) : rate_limits[i].request_count > MaxRequestsPerHour
    /\ \E e \in RateEntries : e.ret /\ e.count = MaxRequestsPerHour
    /\ \E e \in RateEntries : e.ret /\ e.count = 1

\* ------------------------------------------ claims: issuing and deactivated
\* C32: add_api_key called for a secret whose row is deactivated returns
\* False and the row is still deactivated when it returns; the add_api_key
\* of the bootstrap leaves the table as it is for such a secret; no step
\* sets is_active of a deactivated row back to 1; and validate_api_key called
\* for such a secret returns False
C32_IssuingNeverReactivates ==
    /\ [](/\ \A e \in AddEntries : e.pre = 0 => ~e.ret /\ e.post = 0
          /\ \A e \in ValidateEntries : e.pre = 0 => ~e.ret
          /\ \A k \in Secrets, n \in Names :
                StoredActive(api_keys, k) = 0 => add_api_key(api_keys, k, n, now) = api_keys)
    /\ [][\A i \in 1..Len(api_keys) :
             api_keys[i].is_active = 0 =>
                /\ Len(api_keys') >= i
                /\ api_keys'[i].key = api_keys[i].key
                /\ api_keys'[i].is_active = 0]_vars

\* C32 witness: add_api_key was called for a deactivated secret and returned
\* False, and validate_api_key for that secret returned False
C32_Witness ==
    \E a \in AddEntries :
        /\ a.pre = 0 /\ ~a.ret
        /\ StoredActive(api_keys, a.api_key) = 0
        /\ \E v \in ValidateEntries : v.api_key = a.api_key /\ v.pre = 0 /\ ~v.ret

\* ------------------------------------------------------------- the routes
(***************************************************************************)
(* The same server, with requests for each of its kinds of route: /health, *)
(* which the middlewares pass by, /, which has no dependency on a key, and *)
(* /api/fact-check.  The keys are those of the bootstrap.                  *)
(***************************************************************************)
Routes == {"/health", "/", "/api/fact-check"}

NextRoutes ==
    \/ \E r \in Requests, p \in Routes, k \in Secrets \cup {NoHeader} : Arrive(r, p, k)
    \/ \E r \in Requests : MwValidate(r)
    \/ \E r \in Requests : MwRateLimit(r)
    \/ \E r \in Requests : Dispatch(r)
    \/ \E r \in Requests, ok \in BOOLEAN : Complete(r, ok)
    \/ \E r \in Requests : Cancel(r)
    \/ \E r \in Requests, t \in ResponseTimes : Log(r, t)
    \/ ExternalBegin
    \/ ExternalEnd
    \/ HourPasses

SpecRoutes == Init /\ [][NextRoutes]_vars

\* ------------------------------------------------ claims about the routes
\* the step is one of a request for /health in task r
HealthStep(r) ==
    /\ req'[r] # req[r]
    /\ req[r].path = "/health" \/ req'[r].path = "/health"

\* C33: no step of a request for /health, with or without a key header,
\* changes api_keys, rate_limits or usage_stats, and its answer is 200
\* without the rate limiter having been asked, whatever the key and even
\* while the database is locked; a request for any other path, / included,
\* passes validate_api_key and the rate limiter, in this order, before its
\* handler runs, and is charged when it is dispatched
C33_HealthBypassesOthersGated ==
    /\ [](served.last.path = "/health" =>
             /\ served.last.status = 200 /\ served.last.failed = "none"
             /\ ~served.last.limited /\ served.last.limit = NULL)
    /\ [](served.last.path \in Routes \ {"/health"} /\ served.last.dispatched =>
             served.last.limited /\ served.last.current_count >= 1)
    /\ [][\A r \in Requests :
             /\ HealthStep(r) => UNCHANGED <<api_keys, rate_limits, usage_stats>>
             /\ Ordered(r)]_vars

\* C33 witness: a request for / with a stored key was admitted, charged and
\* recorded, and then a request for /health with the same key was answered
\* 200 while another process held the write lock
C33_Witness ==
    /\ served.last.path = "/health" /\ served.last.api_key = "abc123"
    /\ served.last.status = 200
    /\ lock = External
    /\ \E i \in 1..Len(usage_stats) :
          usage_stats[i].endpoint = "/" /\ usage_stats[i].status_code = 200
    /\ Len(rate_limits) = 1 /\ rate_limits[1].request_count = 1

\* ----------------------------------- claims about the in-memory limiter
\* the stored count of the bucket the rate-limit step of request q reads
BucketCount(q) ==
    LET stored == StoredCount(api_keys, rate_limits, q.api_key, HourOf(now))
    IN  IF stored = NULL THEN 0 ELSE stored

\* C34: no request path consults app.py's in-memory RateLimiter: its calls
\* map is empty in every state, although any call of check would leave the
\* client in it; and the rate-limit step of the middleware lets a request
\* on to the route exactly when the stored count of its key's bucket for
\* the current hour is under the hourly ceiling (and the write went
\* through), and answers 429 exactly when that count has reached it
C34_InMemoryLimiterNeverConsulted ==
    /\ [](/\ rate_limiter.calls = <<>>
          /\ \A k \in Secrets \cup {NoHeader} :
                k \in DOMAIN check(rate_limiter, k, now).self.calls)
    /\ [][\A r \in Requests :
             req[r].stage = "rate" /\ After(r) # req[r] =>
                /\ After(r).stage = "handler" <=>
                      BucketCount(req[r]) < MaxRequestsPerHour /\ lock = NoWorker
                /\ After(r).status = 429 <=>
                      BucketCount(req[r]) >= MaxRequestsPerHour
                /\ After(r).failed = "check_rate_limit" <=>
                      BucketCount(req[r]) < MaxRequestsPerHour /\ lock # NoWorker]_vars

\* a request was refused with 429 after the stored count of its bucket had
\* reached the ceiling, and the in-memory limiter has recorded no call
C34_Witness ==
    /\ served.last.status = 429
    /\ served.last.limited
    /\ served.last.pre = MaxRequestsPerHour
    /\ \E i \in 1..Len(rate_limits) : rate_limits[i].request_count = MaxRequestsPerHour
    /\ rate_limiter.calls = <<>>
====
